---- MODULE Spec2Model ----
(***************************************************************************)
(* examples/cross_lingual_ner/reader.py                                    *)
(*                                                                         *)
(* parse_conll_ner_data: the CoNLL document parser (a generator), and      *)
(* ConllExhaustiveReader.data_to_instance: BIO labels -> entity span map,  *)
(* per-sentence context window, exhaustive span enumeration, and the       *)
(* split of a window's spans into instances.                               *)
(*                                                                         *)
(* Python indices are kept 0-based; At(s, i) reads s[i].  A word's token   *)
(* list is modelled by its length; subword k of the document is the        *)
(* number k, so a slice of `subwords` shows which subwords it holds.       *)
(***************************************************************************)
EXTENDS Integers, Sequences, FiniteSets, TLC

VARIABLES
    \* parse_conll_ner_data
    input,                \* the lines of the file not read yet
    words,
    labels,
    sentence_boundaries,
    yielded,              \* the records the generator has yielded
    pstatus,              \* "reading" | "done" | "raised" (AssertionError) | "idle"
    \* ConllExhaustiveReader
    cfg,                  \* self.max_num_subwords, max_entity_length, max_mention_length
    doc,                  \* data_to_instance's arguments and the tokenizer's output
    pc,                   \* "scan" | "window" | "emit" | "done" | "idle"
    n,                    \* the loop variable n of the sentence loop
    start,                \* <<>> is None, <<k>> is k
    cur_type,
    entity_labels,
    built,                \* entity_labels as it stood when the label loop ended
    win,                  \* the locals of one iteration of the sentence loop
    i,                    \* the loop variable i of the split loop
    instances             \* the instances yielded so far

vars == <<input, words, labels, sentence_boundaries, yielded, pstatus,
          cfg, doc, pc, n, start, cur_type, entity_labels, built, win, i, instances>>

parserVars == <<input, words, labels, sentence_boundaries, yielded, pstatus>>
readerVars == <<cfg, doc, pc, n, start, cur_type, entity_labels, built, win, i, instances>>

----------------------------------------------------------------------------
(* Bounds of the model *)

MaxLines == 5            \* lines of an input file
MaxDocSubwords == 3      \* subwords of a labelled document (Spec)
MaxWindowSubwords == 5   \* subwords of an unlabelled document (SpecWindow)
MaxSplitWords == 5       \* words of a document read without a tokenizer (SpecSplit)
MaxBudget == 4           \* the largest max_num_subwords explored
MaxMention == 2          \* the largest max_mention_length explored
MaxEntity == 4           \* the largest max_entity_length explored

(* Program constants *)

NumSpecialTokens == 2
DefaultMaxSequenceLength == 512
DefaultMaxEntityLength == 128
DefaultMaxMentionLength == 16

NON_ENTITY == "O"

----------------------------------------------------------------------------
(* Python primitives *)

At(s, k) == s[k + 1]

Min(a, b) == IF a < b THEN a ELSE b

Max(a, b) == IF a < b THEN b ELSE a

Last(s) == s[Len(s)]

\* k in s, for a list s
InList(k, s) == \E j \in 1..Len(s) : s[j] = k

\* s[a:b]
PySlice(s, a, b) ==
    LET len == Len(s)
        lo  == IF a < 0 THEN Max(a + len, 0) ELSE Min(a, len)
        hi  == IF b < 0 THEN Max(b + len, 0) ELSE Min(b, len)
    IN  SubSeq(s, lo + 1, hi)

\* int(a / 2): the float quotient truncated toward zero
IntHalf(a) == IF a >= 0 THEN a \div 2 ELSE -((-a) \div 2)

\* math.ceil(a / b) for a >= 0, b >= 1
Ceil(a, b) == (a + b - 1) \div b

\* list(range(a, b))
Range(a, b) == [k \in 1..Max(b - a, 0) |-> a + k - 1]

\* [v] * k
Repeat(v, k) == [j \in 1..Max(k, 0) |-> v]

RECURSIVE SumSeq(_)
SumSeq(s) == IF s = <<>> THEN 0 ELSE s[1] + SumSeq(Tail(s))

\* d[k] = v on a dict
DictSet(d, k, v) == [x \in DOMAIN d \cup {k} |-> IF x = k THEN v ELSE d[x]]

\* d.get(k, default)
DictGet(d, k, default) == IF k \in DOMAIN d THEN d[k] ELSE default

\* d.pop(k, None)
DictPop(d, k) == [x \in DOMAIN d \ {k} |-> d[x]]

EmptyDict == [x \in {} |-> ""]

----------------------------------------------------------------------------
(* Labels: "O", "B-<T>", "I-<T>" as [tag, type]; type is label[2:] *)

Types == {"X", "Y"}

OLabel == [tag |-> "O", type |-> ""]

Labels == {OLabel} \cup [tag : {"B", "I"}, type : Types]

----------------------------------------------------------------------------
(* parse_conll_ner_data *)

\* A line after rstrip(): a "-DOCSTART" line, an empty line, or "word ... label"
DocStartLine == [kind |-> "docstart", word |-> "", label |-> OLabel]
BlankLine == [kind |-> "blank", word |-> "", label |-> OLabel]

Lines == {DocStartLine, BlankLine,
          [kind |-> "token", word |-> "John", label |-> OLabel],
          [kind |-> "token", word |-> "Paris", label |-> [tag |-> "B", type |-> "X"]]}

Record(w, l, b) == [words |-> w, labels |-> l, sentence_boundaries |-> b]

EmptyWindow ==
    [left_context_length |-> 0, right_context_length |-> 0, sentence_length |-> 0,
     doc_offset |-> 0, word_ids |-> <<>>,
     entity_start_positions |-> <<>>, entity_end_positions |-> <<>>,
     entity_ids |-> <<>>, entity_position_ids |-> <<>>,
     original_entity_spans |-> <<>>, labels |-> <<>>]

ReaderIdle ==
    /\ cfg = [max_num_subwords |-> 0, max_entity_length |-> 0, max_mention_length |-> 0]
    /\ doc = [labels |-> <<>>, sentence_boundaries |-> <<>>, tokens |-> <<>>]
    /\ pc = "idle"
    /\ n = 0
    /\ start = <<>>
    /\ cur_type = "None"
    /\ entity_labels = EmptyDict
    /\ built = EmptyDict
    /\ win = EmptyWindow
    /\ i = 0
    /\ instances = <<>>

InitParser ==
    /\ \E len \in 0..MaxLines : input \in [1..len -> Lines]
    /\ words = <<>>
    /\ labels = <<>>
    /\ sentence_boundaries = <<0>>
    /\ yielded = <<>>
    /\ pstatus = "reading"
    /\ ReaderIdle

\* line.startswith("-DOCSTART"), with a document in progress
DocStart ==
    /\ pstatus = "reading" /\ input # <<>>
    /\ Head(input).kind = "docstart"
    /\ words # <<>>
    /\ input' = Tail(input)
    /\ IF sentence_boundaries[1] = 0 /\ Last(sentence_boundaries) = Len(words)
       THEN /\ yielded' = Append(yielded, Record(words, labels, sentence_boundaries))
            /\ words' = <<>>
            /\ labels' = <<>>
            /\ sentence_boundaries' = <<0>>
            /\ pstatus' = "reading"
       ELSE /\ pstatus' = "raised"
            /\ UNCHANGED <<words, labels, sentence_boundaries, yielded>>
    /\ UNCHANGED readerVars

\* line.startswith("-DOCSTART"), with no word read yet
DocStartEmpty ==
    /\ pstatus = "reading" /\ input # <<>>
    /\ Head(input).kind = "docstart"
    /\ words = <<>>
    /\ input' = Tail(input)
    /\ UNCHANGED <<words, labels, sentence_boundaries, yielded, pstatus>>
    /\ UNCHANGED readerVars

\* not line
Blank ==
    /\ pstatus = "reading" /\ input # <<>>
    /\ Head(input).kind = "blank"
    /\ input' = Tail(input)
    /\ sentence_boundaries' =
          IF Len(words) # Last(sentence_boundaries)
          THEN Append(sentence_boundaries, Len(words))
          ELSE sentence_boundaries
    /\ UNCHANGED <<words, labels, yielded, pstatus>>
    /\ UNCHANGED readerVars

\* a word line
TokenLine ==
    /\ pstatus = "reading" /\ input # <<>>
    /\ Head(input).kind = "token"
    /\ input' = Tail(input)
    /\ words' = Append(words, Head(input).word)
    /\ labels' = Append(labels, Head(input).label)
    /\ UNCHANGED <<sentence_boundaries, yielded, pstatus>>
    /\ UNCHANGED readerVars

\* the end of the file
EndOfFile ==
    /\ pstatus = "reading" /\ input = <<>>
    /\ yielded' = IF words # <<>>
                  THEN Append(yielded, Record(words, labels, sentence_boundaries))
                  ELSE yielded
    /\ pstatus' = "done"
    /\ UNCHANGED <<input, words, labels, sentence_boundaries>>
    /\ UNCHANGED readerVars

NextParser == DocStart \/ DocStartEmpty \/ Blank \/ TokenLine \/ EndOfFile

SpecParser == InitParser /\ [][NextParser]_vars

----------------------------------------------------------------------------
\* a Document: as many labels as words, boundaries from 0 up to the word count
WellFormedRecord(r) ==
    /\ Len(r.words) = Len(r.labels)
    /\ r.sentence_boundaries[1] = 0
    /\ \A j \in 1..(Len(r.sentence_boundaries) - 1) :
          r.sentence_boundaries[j] < r.sentence_boundaries[j + 1]
    /\ Last(r.sentence_boundaries) = Len(r.words)

\* C1: every record the parser yields has a sentence-boundary list that
\* starts at 0, is strictly increasing and ends at the record's word count,
\* so that its sentences are non-empty and their lengths sum to the word count.
C1_YieldedBoundariesPartition ==
    \A k \in 1..Len(yielded) : WellFormedRecord(yielded[k])

----------------------------------------------------------------------------
(* ConllExhaustiveReader.__init__ *)

Config(max_sequence_length, max_entity_length, max_mention_length) ==
    [max_num_subwords |-> max_sequence_length - NumSpecialTokens,
     max_entity_length |-> max_entity_length,
     max_mention_length |-> max_mention_length]

----------------------------------------------------------------------------
(* data_to_instance: the tokenization maps *)

tokens == doc.tokens

subwords == Range(0, SumSeq(tokens))

RECURSIVE Chain(_, _)
Chain(toks, idx) ==
    IF toks = <<>> THEN <<>> ELSE Repeat(idx, toks[1]) \o Chain(Tail(toks), idx + 1)

subword2token == Chain(tokens, 0)

token2subword == <<0>> \o [k \in 1..Len(tokens) |-> SumSeq(SubSeq(tokens, 1, k))]

subword_start_positions == {token2subword[k] : k \in 1..Len(token2subword)}

subword_sentence_boundaries ==
    [j \in 1..Len(doc.sentence_boundaries) |->
        SumSeq(PySlice(tokens, 0, doc.sentence_boundaries[j]))]

----------------------------------------------------------------------------
(* data_to_instance: the span indices of subwords for entities *)

\* entity_labels[(token2subword[start], token2subword[n])] = cur_type
CloseSpan(st, k) ==
    [st EXCEPT !.entity_labels =
        DictSet(st.entity_labels,
                <<At(token2subword, st.start[1]), At(token2subword, k)>>,
                st.cur_type)]

\* mutant: a sentence boundary does not close the open span
CloseAtBreakLabelOnly(st, k, label) ==
    IF label = OLabel /\ st.start # <<>>
    THEN [CloseSpan(st, k) EXCEPT !.start = <<>>, !.cur_type = "None"]
    ELSE st

\* if label == "O" or n in sentence_boundaries: ...
CloseAtBreak(st, k, label) ==
    IF (label = OLabel \/ InList(k, doc.sentence_boundaries)) /\ st.start # <<>>
    THEN [CloseSpan(st, k) EXCEPT !.start = <<>>, !.cur_type = "None"]
    ELSE st

\* if label.startswith("B"): ... elif label.startswith("I"): ...
OpenOrContinue(st, k, label) ==
    IF label.tag = "B"
    THEN [(IF st.start # <<>> THEN CloseSpan(st, k) ELSE st)
            EXCEPT !.start = <<k>>, !.cur_type = label.type]
    ELSE IF label.tag = "I"
    THEN IF st.start = <<>>
         THEN [st EXCEPT !.start = <<k>>, !.cur_type = label.type]
         ELSE IF st.cur_type # label.type
         THEN [CloseSpan(st, k) EXCEPT !.start = <<k>>, !.cur_type = label.type]
         ELSE st
    ELSE st

\* one iteration of `for n, label in enumerate(labels)`
ScanStep(st, k, label) == OpenOrContinue(CloseAtBreak(st, k, label), k, label)

\* the loop `for n, label in enumerate(labels)` from index k on
RECURSIVE ScanFrom(_, _)
ScanFrom(st, k) ==
    IF k >= Len(doc.labels)
    THEN st
    ELSE ScanFrom(ScanStep(st, k, At(doc.labels, k)), k + 1)

ScanState == [entity_labels |-> entity_labels, start |-> start, cur_type |-> cur_type]

\* if start is not None: entity_labels[(token2subword[start], len(subwords))] = cur_type
CloseLast(st) ==
    IF st.start # <<>>
    THEN DictSet(st.entity_labels,
                 <<At(token2subword, st.start[1]), Len(subwords)>>, st.cur_type)
    ELSE st.entity_labels

\* lines 84-110: the label loop and the closing of the last span
Scan ==
    /\ pc = "scan"
    /\ LET st == ScanFrom(ScanState, 0)
       IN  /\ entity_labels' = CloseLast(st)
           /\ start' = st.start
           /\ cur_type' = st.cur_type
    /\ built' = entity_labels'
    /\ pc' = "window"
    /\ n' = 0
    /\ UNCHANGED <<cfg, doc, win, i, instances>>
    /\ UNCHANGED parserVars

----------------------------------------------------------------------------
(* data_to_instance: the window of one sentence *)

\* mutant: the half is rounded up
HalfContextLengthCeil(sentence_length) ==
    IntHalf(cfg.max_num_subwords - sentence_length + 1)

\* half_context_length = int((self.max_num_subwords - sentence_length) / 2)
HalfContextLength(sentence_length) == IntHalf(cfg.max_num_subwords - sentence_length)

\* mutant: the second side is not charged for what the first side took
ContextLengthsUncharged(left_length, right_length, sentence_length) ==
    LET half_context_length == IntHalf(cfg.max_num_subwords - sentence_length)
        rest == cfg.max_num_subwords - sentence_length
    IN  IF left_length < right_length
        THEN [left_context_length |-> Min(left_length, half_context_length),
              right_context_length |-> Min(right_length, rest)]
        ELSE [left_context_length |-> Min(left_length, rest),
              right_context_length |-> Min(right_length, half_context_length)]

\* if left_length < right_length: ... else: ...
ContextLengths(left_length, right_length, sentence_length) ==
    LET half_context_length == HalfContextLength(sentence_length)
    IN  IF left_length < right_length
        THEN LET left_context_length == Min(left_length, half_context_length)
             IN  [left_context_length |-> left_context_length,
                  right_context_length |->
                      Min(right_length,
                          cfg.max_num_subwords - left_context_length - sentence_length)]
        ELSE LET right_context_length == Min(right_length, half_context_length)
             IN  [left_context_length |->
                      Min(left_length,
                          cfg.max_num_subwords - right_context_length - sentence_length),
                  right_context_length |-> right_context_length]

\* word_ids = subwords[doc_offset : doc_sent_end + right_context_length]
\* (add_special_tokens, for a PretrainedTransformerTokenizer, frames this slice
\* afterwards; word_ids here is the slice itself)
WindowSlice(doc_offset, doc_sent_end, right_context_length) ==
    PySlice(subwords, doc_offset, doc_sent_end + right_context_length)

\* the window of sentence k: lines 115-130
SelectWindow(k) ==
    LET doc_sent_start == At(subword_sentence_boundaries, k)
        doc_sent_end == At(subword_sentence_boundaries, k + 1)
        left_length == doc_sent_start
        right_length == Len(subwords) - doc_sent_end
        sentence_length == doc_sent_end - doc_sent_start
        c == ContextLengths(left_length, right_length, sentence_length)
        doc_offset == doc_sent_start - c.left_context_length
    IN  [EmptyWindow EXCEPT
            !.left_context_length = c.left_context_length,
            !.right_context_length = c.right_context_length,
            !.sentence_length = sentence_length,
            !.doc_offset = doc_offset,
            !.word_ids = WindowSlice(doc_offset, doc_sent_end, c.right_context_length)]

----------------------------------------------------------------------------
(* data_to_instance: the candidate spans of one window *)

\* doc_entity_start not in subword_start_positions / doc_entity_end not in ...
IsWordStart(pos) == pos \in subword_start_positions

\* mutant: a span one subword longer than max_mention_length is kept
TooLongOffByOne(entity_start, entity_end) ==
    entity_end - entity_start > cfg.max_mention_length + 1

\* entity_end - entity_start > self.max_mention_length
TooLong(entity_start, entity_end) == entity_end - entity_start > cfg.max_mention_length

\* mutant: the key's end is the span's last subword
SpanKeyInclusive(doc_entity_start, doc_entity_end) ==
    <<doc_entity_start, doc_entity_end - 1>>

\* (doc_entity_start, doc_entity_end), the key looked up in entity_labels
SpanKey(doc_entity_start, doc_entity_end) == <<doc_entity_start, doc_entity_end>>

\* the body of the inner loop, lines 155-168; acc holds the window and the dict
AppendSpan(acc, entity_start, entity_end) ==
    LET w == acc.win
        doc_entity_start == entity_start + w.doc_offset
        doc_entity_end == entity_end + w.doc_offset
        key == SpanKey(doc_entity_start, doc_entity_end)
        position_ids ==
            Range(entity_start + 1, entity_end + 1)
            \o Repeat(-1, cfg.max_mention_length - entity_end + entity_start)
    IN  [win |->
            [w EXCEPT
                !.entity_start_positions = Append(@, entity_start + 1),
                !.entity_end_positions = Append(@, entity_end),
                !.entity_ids = Append(@, 1),
                !.entity_position_ids = Append(@, position_ids),
                !.original_entity_spans =
                    Append(@, <<At(subword2token, doc_entity_start),
                                At(subword2token, doc_entity_end - 1) + 1>>),
                !.labels = Append(@, DictGet(acc.entity_labels, key, NON_ENTITY))],
         entity_labels |-> DictPop(acc.entity_labels, key)]

\* the two nested loops, lines 143-168, from (entity_start, entity_end) on
RECURSIVE EnumerateSpans(_, _, _)
EnumerateSpans(acc, entity_start, entity_end) ==
    LET w == acc.win
        stop == w.left_context_length + w.sentence_length
    IN  IF entity_start >= stop
        THEN acc
        ELSE IF ~IsWordStart(entity_start + w.doc_offset) \/ entity_end >= stop + 1
        THEN EnumerateSpans(acc, entity_start + 1, entity_start + 2)
        ELSE IF ~IsWordStart(entity_end + w.doc_offset) \/ TooLong(entity_start, entity_end)
        THEN EnumerateSpans(acc, entity_start, entity_end + 1)
        ELSE EnumerateSpans(AppendSpan(acc, entity_start, entity_end),
                            entity_start, entity_end + 1)

Window ==
    /\ pc = "window" /\ n < Len(subword_sentence_boundaries) - 1
    /\ LET w == SelectWindow(n)
           acc == EnumerateSpans([win |-> w, entity_labels |-> entity_labels],
                                 w.left_context_length, w.left_context_length + 1)
       IN  /\ win' = acc.win
           /\ entity_labels' = acc.entity_labels
    /\ pc' = "emit"
    /\ i' = 0
    /\ UNCHANGED <<cfg, doc, n, start, cur_type, built, instances>>
    /\ UNCHANGED parserVars

----------------------------------------------------------------------------
(* data_to_instance: split instances *)

\* mutant: floor division plus one
SplitSizeFloor(count, max_entity_length) == count \div max_entity_length + 1

\* split_size = math.ceil(len(entity_ids) / self.max_entity_length)
SplitSize(count, max_entity_length) == Ceil(count, max_entity_length)

\* mutant: floor division
EntitySizeFloor(count, split_size) == count \div split_size

\* entity_size = math.ceil(len(entity_ids) / split_size)
EntitySize(count, split_size) == Ceil(count, split_size)

\* lst[start:end] with start = i * entity_size, end = start + entity_size
Chunk(lst, k, entity_size) == PySlice(lst, k * entity_size, k * entity_size + entity_size)

\* the fields of instance k of the window (the entity_ids and
\* entity_position_ids fields of use_entity_feature are left out)
Fields(w, k) ==
    LET split_size == SplitSize(Len(w.entity_ids), cfg.max_entity_length)
        entity_size == EntitySize(Len(w.entity_ids), split_size)
    IN  [word_ids |-> w.word_ids,
         entity_start_positions |-> Chunk(w.entity_start_positions, k, entity_size),
         entity_end_positions |-> Chunk(w.entity_end_positions, k, entity_size),
         original_entity_spans |-> Chunk(w.original_entity_spans, k, entity_size),
         labels |-> Chunk(w.labels, k, entity_size)]

Emit ==
    /\ pc = "emit" /\ i < SplitSize(Len(win.entity_ids), cfg.max_entity_length)
    /\ instances' = Append(instances, Fields(win, i))
    /\ i' = i + 1
    /\ UNCHANGED <<cfg, doc, pc, n, start, cur_type, entity_labels, built, win>>
    /\ UNCHANGED parserVars

\* the split loop is over: on to the next sentence
NextSentence ==
    /\ pc = "emit" /\ i = SplitSize(Len(win.entity_ids), cfg.max_entity_length)
    /\ n' = n + 1
    /\ pc' = "window"
    /\ UNCHANGED <<cfg, doc, start, cur_type, entity_labels, built, win, i, instances>>
    /\ UNCHANGED parserVars

\* the sentence loop is over
Finish ==
    /\ pc = "window" /\ n >= Len(subword_sentence_boundaries) - 1
    /\ pc' = "done"
    /\ UNCHANGED <<cfg, doc, n, start, cur_type, entity_labels, built, win, i, instances>>
    /\ UNCHANGED parserVars

Next == Scan \/ Window \/ Emit \/ NextSentence \/ Finish

----------------------------------------------------------------------------
(* _read: the documents and configurations explored *)

ParserIdle ==
    /\ input = <<>>
    /\ words = <<>>
    /\ labels = <<>>
    /\ sentence_boundaries = <<0>>
    /\ yielded = <<>>
    /\ pstatus = "idle"

RECURSIVE SortedSeq(_)
SortedSeq(S) ==
    IF S = {} THEN <<>>
    ELSE LET m == CHOOSE x \in S : \A y \in S : x <= y
         IN  <<m>> \o SortedSeq(S \ {m})

\* the boundary lists parse_conll_ner_data can yield with k words: 0, then
\* increasing word counts; the last is k unless the file ends inside a sentence
BoundaryLists(k) == {SortedSeq({0} \cup S) : S \in SUBSET (1..k)}

\* tokenizer.tokenize(w) for each word: at least one subword a word, at most
\* maxTotal subwords a document
Tokenizations(maxTotal) ==
    UNION {{t \in [1..k -> 1..maxTotal] : SumSeq(t) <= maxTotal} : k \in 1..maxTotal}

\* self.tokenizer is None: [[Token(w)] for w in words]
NoTokenizer(maxWords) == {[j \in 1..k |-> 1] : k \in 1..maxWords}

Documents(tokenizations, labelSet) ==
    UNION {[labels : [1..Len(t) -> labelSet],
            sentence_boundaries : BoundaryLists(Len(t)),
            tokens : {t}] : t \in tokenizations}

\* the documents whose last sentence is closed: yielded at a -DOCSTART line,
\* or at the end of a file that ends with a blank line
Closed(documents) ==
    {d \in documents : Last(d.sentence_boundaries) = Len(d.tokens)}

\* John/O lives/O in/O Paris/B-LOC ./O, one sentence, one subword a word
ParisDocument ==
    [labels |-> <<OLabel, OLabel, OLabel, [tag |-> "B", type |-> "LOC"], OLabel>>,
     sentence_boundaries |-> <<0, 5>>,
     tokens |-> <<1, 1, 1, 1, 1>>]

InitReader(documents, configs) ==
    /\ ParserIdle
    /\ doc \in documents
    /\ cfg \in configs
    /\ pc = "scan"
    /\ n = 0
    /\ start = <<>>
    /\ cur_type = "None"
    /\ entity_labels = EmptyDict
    /\ built = EmptyDict
    /\ win = EmptyWindow
    /\ i = 0
    /\ instances = <<>>

\* labelled documents whose last sentence is closed (the label loop never
\* looks at the last boundary); the default configuration with one of
\* max_sequence_length and max_mention_length made small
Init ==
    InitReader(Closed(Documents(Tokenizations(MaxDocSubwords), Labels))
                   \cup {ParisDocument},
               {Config(DefaultMaxSequenceLength, DefaultMaxEntityLength, m) :
                    m \in 1..MaxMention}
               \cup {Config(b + NumSpecialTokens, DefaultMaxEntityLength,
                            DefaultMaxMentionLength) : b \in 1..(MaxDocSubwords - 1)})

Spec == Init /\ [][Next]_vars

\* unlabelled documents; small budgets and mention lengths
InitWindow ==
    InitReader(Documents(Tokenizations(MaxWindowSubwords), {OLabel}),
               {Config(b + NumSpecialTokens, DefaultMaxEntityLength, m) :
                    b \in 1..MaxBudget, m \in 1..MaxMention})

SpecWindow == InitWindow /\ [][Next]_vars

\* unlabelled documents read without a tokenizer; small mention and entity lengths
InitSplit ==
    InitReader(Documents(NoTokenizer(MaxSplitWords), {OLabel}),
               {Config(DefaultMaxSequenceLength, e, m) :
                    e \in 1..MaxEntity, m \in 1..MaxMention})

SpecSplit == InitSplit /\ [][Next]_vars

----------------------------------------------------------------------------
(* Properties of the label-to-span conversion *)

NumLabels == Len(doc.labels)

LabelAt(k) == At(doc.labels, k)

IsBoundary(k) == \E j \in 1..Len(doc.sentence_boundaries) : doc.sentence_boundaries[j] = k

\* word k opens a run: a B- label, or an I- label with no open span before it
\* or with an open span of another type
OpensRun(k) ==
    /\ LabelAt(k).tag # "O"
    /\ \/ LabelAt(k).tag = "B"
       \/ k = 0
       \/ IsBoundary(k)
       \/ LabelAt(k - 1).tag = "O"
       \/ LabelAt(k - 1).type # LabelAt(k).type

\* a run open before word k ends there
ClosesRun(k) ==
    \/ k = NumLabels
    \/ LabelAt(k).tag = "O"
    \/ IsBoundary(k)
    \/ OpensRun(k)

RunEnd(s) ==
    CHOOSE e \in (s + 1)..NumLabels :
        ClosesRun(e) /\ \A m \in (s + 1)..(e - 1) : ~ClosesRun(m)

BIORuns == {<<s, RunEnd(s)>> : s \in {k \in 0..(NumLabels - 1) : OpensRun(k)}}

RunKey(r) == <<At(token2subword, r[1]), At(token2subword, r[2])>>

\* the label loop has just ended: no window has been taken yet
Scanned == pc = "window" /\ n = 0

\* C2: the entity span map the label loop builds is BIO decoding with
\* boundary-forced closure: its keys are the subword offsets of the maximal
\* runs (opened by B-, or by an I- with no open span or of another type; closed
\* by O, a run opening, a sentence boundary or the end), each mapped to the
\* type of the label that opens the run.
C2_SpanMapIsBIODecoding ==
    Scanned =>
        /\ DOMAIN built = {RunKey(r) : r \in BIORuns}
        /\ \A r \in BIORuns : built[RunKey(r)] = LabelAt(r[1]).type

\* a run opened by an I- label right after a run that a sentence boundary closed
C2_Witness ==
    /\ Scanned
    /\ \E r \in BIORuns :
          /\ r[2] < NumLabels
          /\ IsBoundary(r[2])
          /\ LabelAt(r[2]).tag = "I"
          /\ LabelAt(r[2]).type = LabelAt(r[1]).type
          /\ At(token2subword, r[2]) # r[2]

----------------------------------------------------------------------------
(* Properties of the labels given to the candidate spans *)

WellFormedDocument ==
    /\ Len(doc.labels) = Len(doc.tokens)
    /\ doc.sentence_boundaries[1] = 0
    /\ Last(doc.sentence_boundaries) = Len(doc.tokens)

\* the candidate spans of all the instances yielded: <<instance, position>>
Candidates ==
    UNION {{<<a, b>> : b \in 1..Len(instances[a].labels)} : a \in 1..Len(instances)}

CandidateLabel(c) == instances[c[1]].labels[c[2]]

CandidateWords(c) == instances[c[1]].original_entity_spans[c[2]]

\* the document-level subword span of the candidate's original word span
CandidateKey(c) ==
    <<At(token2subword, CandidateWords(c)[1]), At(token2subword, CandidateWords(c)[2])>>

Enumerable(key) == key[2] - key[1] <= cfg.max_mention_length

\* C5: for a well-formed document, once every sentence has been enumerated,
\* each entry of the entity span map no longer than max_mention_length labels
\* exactly one candidate span, the one with its document-level (start, end),
\* and a longer entry labels none; every other candidate is labelled "O".  A
\* candidate's original word span is the word span of its document-level
\* subword span.  John/O lives/O in/O Paris/B-LOC ./O gives the map
\* {(3,4): LOC} and exactly one span labelled LOC, with word span (3,4).
C5_EntitiesLabelOneCandidate ==
    /\ (pc = "emit" /\ i = 0) =>
          \A j \in 1..Len(win.labels) :
              /\ At(token2subword, win.original_entity_spans[j][1])
                    = win.doc_offset + win.entity_start_positions[j] - 1
              /\ At(token2subword, win.original_entity_spans[j][2])
                    = win.doc_offset + win.entity_end_positions[j]
    /\ (pc = "done" /\ WellFormedDocument) =>
          /\ \A key \in DOMAIN built :
                Cardinality({c \in Candidates : CandidateKey(c) = key})
                    = IF Enumerable(key) THEN 1 ELSE 0
          /\ \A c \in Candidates :
                CandidateLabel(c) = DictGet(built, CandidateKey(c), NON_ENTITY)
    /\ (Scanned /\ doc = ParisDocument) => built = (<<3, 4>> :> "LOC")
    /\ (pc = "done" /\ doc = ParisDocument) =>
          /\ Cardinality({c \in Candidates : CandidateLabel(c) = "LOC"}) = 1
          /\ \A c \in Candidates :
                CandidateLabel(c) = IF CandidateWords(c) = <<3, 4>> THEN "LOC" ELSE NON_ENTITY

\* a document of two sentences with an entity short enough to be enumerated
\* and one too long
C5_Witness ==
    /\ pc = "done" /\ WellFormedDocument
    /\ Len(doc.sentence_boundaries) = 3
    /\ \E key \in DOMAIN built : Enumerable(key)
    /\ \E key \in DOMAIN built : ~Enumerable(key)
    /\ \E c \in Candidates : CandidateLabel(c) # NON_ENTITY

----------------------------------------------------------------------------
(* Properties of the window and of its candidate spans *)

Windowed == pc = "emit"

Budget == cfg.max_num_subwords

LeftLength == At(subword_sentence_boundaries, n)

RightLength == Len(subwords) - At(subword_sentence_boundaries, n + 1)

\* C3: the window slice of a sentence holds at most max_num_subwords
\* subwords, whatever the sentence length.
C3_WindowWithinBudget ==
    Windowed => Len(win.word_ids) <= Budget

\* a sentence longer than the budget, whose window fills the budget
C3_Witness ==
    /\ Windowed
    /\ win.sentence_length > Budget
    /\ Len(win.word_ids) = Budget

\* C4: the context lengths lie in [0, left_length] and [0, right_length], also
\* for a sentence longer than the budget; a document whose single sentence
\* exceeds the budget gets no context and a window of the sentence's length.
C4_ContextWithinAvailable ==
    Windowed =>
        /\ 0 <= win.left_context_length /\ win.left_context_length <= LeftLength
        /\ 0 <= win.right_context_length /\ win.right_context_length <= RightLength
        /\ (Len(doc.sentence_boundaries) = 2 /\ win.sentence_length > Budget) =>
              /\ win.left_context_length = 0
              /\ win.right_context_length = 0
              /\ Len(win.word_ids) = win.sentence_length

\* C9: a sentence within the budget gets a window of min(budget, document
\* subwords) subwords; the side with less context available gets
\* min(available, floor((budget - sentence_length) / 2)) and the other side
\* min(available, what is left of the budget).
C9_BudgetIsUsed ==
    (Windowed /\ win.sentence_length <= Budget) =>
        LET half == (Budget - win.sentence_length) \div 2
            leftFirst ==
                /\ win.left_context_length = Min(LeftLength, half)
                /\ win.right_context_length =
                      Min(RightLength,
                          Budget - win.sentence_length - win.left_context_length)
            rightFirst ==
                /\ win.right_context_length = Min(RightLength, half)
                /\ win.left_context_length =
                      Min(LeftLength,
                          Budget - win.sentence_length - win.right_context_length)
        IN  /\ Len(win.word_ids) = Min(Budget, Len(subwords))
            /\ LeftLength < RightLength => leftFirst
            /\ RightLength < LeftLength => rightFirst
            /\ LeftLength = RightLength => (leftFirst \/ rightFirst)

\* the left side cannot use its half, the right side gets more than half, and
\* the document is longer than the window
C9_Witness ==
    /\ Windowed /\ win.sentence_length <= Budget
    /\ LeftLength < (Budget - win.sentence_length) \div 2
    /\ win.right_context_length > (Budget - win.sentence_length) \div 2
    /\ Len(win.word_ids) = Budget
    /\ Budget < Len(subwords)

\* C6: every candidate span (s+1, e) of a window has s < e, e - s at most
\* max_mention_length, and doc_offset+s and doc_offset+e at word starts.
C6_SpansShortAndAligned ==
    Windowed =>
        \A j \in 1..Len(win.entity_start_positions) :
            LET s == win.entity_start_positions[j] - 1
                e == win.entity_end_positions[j]
            IN  /\ s < e
                /\ e - s <= cfg.max_mention_length
                /\ IsWordStart(win.doc_offset + s)
                /\ IsWordStart(win.doc_offset + e)

\* a sentence with a word of several subwords and with more subwords than a
\* mention may have, one of whose candidates has the full mention length
C6_Witness ==
    /\ Windowed
    /\ win.sentence_length > cfg.max_mention_length
    /\ \E k \in 0..(win.sentence_length - 1) :
          ~IsWordStart(At(subword_sentence_boundaries, n) + k)
    /\ \E j \in 1..Len(win.entity_start_positions) :
          win.entity_end_positions[j] - win.entity_start_positions[j] + 1
              = cfg.max_mention_length

\* C10: every candidate span (s+1, e) of a window lies in the window slice:
\* 1 <= s+1 <= e <= len(word_ids), for sentences of any length.
C10_SpansInsideWindow ==
    Windowed =>
        \A j \in 1..Len(win.entity_start_positions) :
            /\ 1 <= win.entity_start_positions[j]
            /\ win.entity_start_positions[j] <= win.entity_end_positions[j]
            /\ win.entity_end_positions[j] <= Len(win.word_ids)

----------------------------------------------------------------------------
(* Properties of the split of a window's spans into instances *)

\* the split loop of the last window is over: i instances were yielded for it
SplitOver == pc \in {"window", "done"} /\ n >= 1

WindowInstances == SubSeq(instances, Len(instances) - i + 1, Len(instances))

RECURSIVE Concat(_)
Concat(ss) == IF ss = <<>> THEN <<>> ELSE ss[1] \o Concat(Tail(ss))

ChunkSizes == [k \in 1..i |-> Len(WindowInstances[k].labels)]

\* the least k with k * b >= a
CeilOf(a, b) == CHOOSE k \in 0..a : k * b >= a /\ \A m \in 0..(k - 1) : m * b < a

\* C7: the chunks of the instances yielded for a window, concatenated in
\* order, are the window's candidate list: no span is dropped, duplicated or
\* moved.
C7_ChunksConcatenate ==
    SplitOver =>
        /\ Concat([k \in 1..i |-> WindowInstances[k].entity_start_positions])
              = win.entity_start_positions
        /\ Concat([k \in 1..i |-> WindowInstances[k].entity_end_positions])
              = win.entity_end_positions
        /\ Concat([k \in 1..i |-> WindowInstances[k].original_entity_spans])
              = win.original_entity_spans
        /\ Concat([k \in 1..i |-> WindowInstances[k].labels]) = win.labels
        /\ \A k \in 1..i : WindowInstances[k].word_ids = win.word_ids

\* a window split into three or more chunks, the last one shorter
C7_Witness ==
    /\ SplitOver
    /\ i >= 3
    /\ ChunkSizes[i] < ChunkSizes[1]

SplitCountAndCapacity ==
    /\ i = CeilOf(Len(win.entity_ids), cfg.max_entity_length)
    /\ \A k \in 1..i : 1 <= ChunkSizes[k] /\ ChunkSizes[k] <= cfg.max_entity_length

\* C8 as stated: ceil(count / max_entity_length) instances, each chunk
\* non-empty and within max_entity_length, and the sizes of any two chunks of
\* a window differ by at most one.
C8_ChunksAsEqualAsPossible ==
    SplitOver =>
        /\ SplitCountAndCapacity
        /\ \A a, b \in 1..i : ChunkSizes[a] - ChunkSizes[b] <= 1

\* C8 as amended: ceil(count / max_entity_length) instances, each chunk
\* non-empty and within max_entity_length; every chunk but the last holds
\* ceil(count / instances) spans and the last holds the rest; 300 spans with
\* max_entity_length 128 give 3 chunks of 100.
C8_ChunksOfCeilingSize ==
    /\ SplitOver =>
          /\ SplitCountAndCapacity
          /\ \A k \in 1..(i - 1) : ChunkSizes[k] = CeilOf(Len(win.entity_ids), i)
          /\ i >= 1 =>
                ChunkSizes[i] = Len(win.entity_ids) - (i - 1) * CeilOf(Len(win.entity_ids), i)
    /\ SplitSize(300, 128) = 3
    /\ EntitySize(300, SplitSize(300, 128)) = 100

\* seven spans with max_entity_length 3: chunks of 3, 3 and 1
C8_Witness ==
    /\ SplitOver
    /\ Len(win.entity_ids) = 7
    /\ cfg.max_entity_length = 3
    /\ ChunkSizes = <<3, 3, 1>>

====
